---------------------------- MODULE Spec2Model ----------------------------
(***************************************************************************)
(* A model of the TTS gateway's providers (src/tts): the Azure session     *)
(* refresh of AzureTTSProvider._get_endpoint, the voice catalogue of       *)
(* TTSProvider.get_voices with its disk cache VoiceCache, and the          *)
(* re-chunking stream of VolcengineTTSProvider.                            *)
(*                                                                         *)
(* Python's None is the empty sequence and a present value x is <<x>>, so  *)
(* that "unset" and "set to an empty list" stay different values.          *)
(***************************************************************************)
EXTENDS Integers, Sequences, FiniteSets, TLC

VARIABLES
    now,          \* time.time(), in whole seconds
    ticks,        \* how often the clock has advanced
    endpoint,     \* AzureTTSProvider._endpoint
    expired_at,   \* AzureTTSProvider._expired_at
    apc,          \* Azure callers: where each coroutine is suspended
    aloc,         \* Azure callers: the locals of the running call
    azCalls,      \* Azure calls started so far
    voices,       \* TTSProvider._voices, per provider
    disk,         \* the file CACHE_DIR/<provider>_voices.json, per provider
    gpc,          \* get_voices callers: where each coroutine is suspended
    gloc,         \* get_voices callers: the locals of the running call
    hist,         \* per provider, the get_voices calls that have returned
    catCalls,     \* get_voices calls started so far
    upc,          \* VoiceCache users: the file-system call each is about to make
    uloc,         \* VoiceCache users: the locals of the running operation
    ures,         \* VoiceCache users: how the last operation ended
    cacheOps,     \* VoiceCache operations started so far
    vpc,          \* the Volcengine caller: where its coroutine is suspended
    vloc,         \* the Volcengine caller: the locals of the running call
    vout,         \* the Volcengine caller: how the last call ended
    vchunks,      \* the chunks the last synthesize_stream has yielded
    volcCalls,    \* Volcengine calls started so far
    providers,    \* main.providers: the registered names, in insertion order
    life,         \* lifespan: "new", "up" after startup, "down" after shutdown
    hpc,          \* the HTTP request being served: where it stands
    hloc,         \* the HTTP request being served: its locals
    hres,         \* the response to the last HTTP request
    gwCalls       \* HTTP requests received so far

azVars == <<endpoint, expired_at, apc, aloc, azCalls>>
catVars == <<voices, disk, gpc, gloc, hist, catCalls>>
userVars == <<upc, uloc, ures, cacheOps>>
clockVars == <<now, ticks>>
volcVars == <<vpc, vloc, vout, vchunks, volcCalls>>
gwVars == <<providers, life, hpc, hloc, hres, gwCalls>>
vars == <<now, ticks, endpoint, expired_at, apc, aloc, azCalls,
          voices, disk, gpc, gloc, hist, catCalls, upc, uloc, ures, cacheOps,
          vpc, vloc, vout, vchunks, volcCalls,
          providers, life, hpc, hloc, hres, gwCalls>>

None == <<>>
Some(x) == <<x>>
IsSet(o) == o # <<>>
Val(o) == o[1]

(***************************************************************************)
(* Bounds of the model.                                                    *)
(***************************************************************************)
MaxTicks == 2
MaxCatTicks == 1
MaxAzCalls == 2
MaxCatCalls == 3
MaxCacheOps == 3
MaxVolcCalls == 1
MaxChunks == 2
MaxGwCalls == 1

CACHE_TTL == 86400 * 7

\* The clock advances by one of the amounts `S` between two steps, at most
\* `max` times.
Tick(S, max) ==
    /\ ticks < max
    /\ \E d \in S : now' = now + d
    /\ ticks' = ticks + 1

(***************************************************************************)
(* AzureTTSProvider: the session state and _get_endpoint                   *)
(***************************************************************************)
\* The callers are interchangeable: they are numbered, and a new call is run
\* by the lowest-numbered caller that is idle.
AzTasks == {1, 2}
AzKinds == {"synthesize", "synthesize_stream"}

\* The safety margin of _get_endpoint, in seconds.
MARGIN == 60

\* The amounts by which the clock advances while callers are suspended.
AzTickSet == {30}

\* Lifetimes the negotiation endpoint gives its tokens, in seconds.
Lifetimes == {60, 3600}

\* The middle part of the token `t`: it decodes to a JSON payload or not, and
\* the payload carries an `exp` claim or not.
Jwt(decodes, exp) == [decodes |-> decodes, exp |-> exp]

\* response.json() of the negotiation: a dict with `t` and `r`, either absent.
EndpointDict(t, r) == [t |-> t, r |-> r]

\* The 2xx JSON bodies the negotiation endpoint can answer with at time `t0`.
NegResponses(t0) ==
    { EndpointDict(Some(Jwt(TRUE, Some(t0 + l))), Some("eastus")) : l \in Lifetimes }
    \cup { EndpointDict(None, Some("eastus")),
           EndpointDict(Some(Jwt(FALSE, None)), Some("eastus")),
           EndpointDict(Some(Jwt(TRUE, None)), Some("eastus")),
           EndpointDict(Some(Jwt(TRUE, Some(t0 + 3600))), None) }

\* A slip at the boundary of line 77: a session that expires exactly 60 seconds
\* from now is still taken for valid.
SessionValidInclusive(exp, current_time) ==
    /\ IsSet(exp)
    /\ Val(exp) # 0
    /\ current_time <= Val(exp) - MARGIN

\* Line 77: `self._expired_at and current_time < self._expired_at - 60`.
SessionValid(exp, current_time) ==
    /\ IsSet(exp)
    /\ Val(exp) # 0
    /\ current_time < Val(exp) - MARGIN

\* Lines 99-104: the `exp` claim of self._endpoint["t"], or the error raised.
DecodeExp(ep) ==
    IF ~IsSet(ep.t) THEN [ok |-> FALSE, exc |-> "KeyError", exp |-> 0]
    ELSE IF ~Val(ep.t).decodes THEN [ok |-> FALSE, exc |-> "ValueError", exp |-> 0]
    ELSE IF ~IsSet(Val(ep.t).exp) THEN [ok |-> FALSE, exc |-> "KeyError", exp |-> 0]
    ELSE [ok |-> TRUE, exc |-> "", exp |-> Val(Val(ep.t).exp)]

\* Lines 116-118 (137-139): the request reads endpoint['r'] and endpoint['t'].
RequestReadable(ep) == IsSet(ep.r) /\ IsSet(ep.t)

\* Lines 28-30; DEFAULT_VOICE_NAME is also the default voice of the HTTP layer
\* (main.py lines 51 and 128).
DEFAULT_VOICE_NAME == "zh-CN-XiaoxiaoMultilingualNeural"
DEFAULT_OUTPUT_FORMAT == "audio-24khz-48kbitrate-mono-mp3"
DEFAULT_STYLE == "general"

\* _get_output_format, lines 177-187.
OutputFormat(response_format) ==
    CASE response_format = "mp3" -> "audio-24khz-48kbitrate-mono-mp3"
      [] response_format = "opus" -> "ogg-24khz-16bit-mono-opus"
      [] response_format = "aac" -> "audio-24khz-96kbitrate-mono-mp3"
      [] response_format = "flac" -> "audio-24khz-48kbitrate-mono-mp3"
      [] response_format = "wav" -> "riff-24khz-16bit-mono-pcm"
      [] response_format = "pcm" -> "raw-24khz-16bit-mono-pcm"
      [] OTHER -> DEFAULT_OUTPUT_FORMAT

\* Python's int() of the quotient n / d (d > 0): the fraction is dropped,
\* towards zero.
IntOf(n, d) == IF n >= 0 THEN n \div d ELSE 0 - ((0 - n) \div d)

\* Lines 112 and 133: int((request.speed - 1) * 100), the speed in
\* thousandths.
Rate(speed) == IntOf((speed - 1000) * 100, 1000)

\* _build_ssml, lines 49-59: the parts of the document that vary.
BuildSsml(text, voice_name, rate, pitch, style) ==
    [text |-> text, voice |-> voice_name, rate |-> rate, pitch |-> pitch, style |-> style]

\* The POST request to the synthesis endpoint.
VendorRequest(region, authorization, output_format, ssml) ==
    [region |-> region, authorization |-> authorization,
     output_format |-> output_format, ssml |-> ssml]

\* Lines 111-122: the request synthesize sends with the endpoint record `ep`.
SynthesizeRequest(request, ep) ==
    LET voice_name == IF request.voice # "" THEN request.voice ELSE DEFAULT_VOICE_NAME
        rate == Rate(request.speed)
        pitch == 0
        output_format == OutputFormat(request.response_format)
    IN  VendorRequest(Val(ep.r), Val(ep.t), output_format,
                      BuildSsml(request.text, voice_name, rate, pitch, DEFAULT_STYLE))

\* A slip in line 134: the stream always asks for the default output format.
StreamRequestDefaultFormat(request, ep) ==
    LET voice_name == IF request.voice # "" THEN request.voice ELSE DEFAULT_VOICE_NAME
        rate == Rate(request.speed)
        pitch == 0
    IN  VendorRequest(Val(ep.r), Val(ep.t), DEFAULT_OUTPUT_FORMAT,
                      BuildSsml(request.text, voice_name, rate, pitch, DEFAULT_STYLE))

\* Lines 132-143: the request synthesize_stream sends.
StreamRequest(request, ep) ==
    LET voice_name == IF request.voice # "" THEN request.voice ELSE DEFAULT_VOICE_NAME
        rate == Rate(request.speed)
        pitch == 0
        output_format == OutputFormat(request.response_format)
    IN  VendorRequest(Val(ep.r), Val(ep.t), output_format,
                      BuildSsml(request.text, voice_name, rate, pitch, DEFAULT_STYLE))

\* TTSRequest, base.py lines 17-23, the speed in thousandths.
AzRequest(voice, speed, response_format) ==
    [text |-> "text", voice |-> voice, speed |-> speed, response_format |-> response_format]

DefaultRequest == AzRequest("", 1000, "mp3")

\* The requests the callers make: each field varies from the default one.
AzRequests ==
    { AzRequest(v, 1000, "mp3") : v \in {"", "zh-CN-YunxiNeural"} }
    \cup { AzRequest("", s, "mp3") : s \in {250, 745, 1155, 4000} }
    \cup { AzRequest("", 1000, f) : f \in {"opus", "aac", "flac", "wav", "pcm", "ogg"} }

\* The bytes of aiter_bytes(chunk_size=4096) from offset `i` of the body.
AzChunk(content, i) ==
    SubSeq(content, i + 1, IF i + 4096 < Len(content) THEN i + 4096 ELSE Len(content))

\* The bodies the synthesis endpoint answers with.
AzBodies == { [k \in 1..n |-> k % 251] : n \in {0, 1, 4096, 4097} }

AzIdle == [kind |-> "", current_time |-> 0, startExp |-> None, startEndpoint |-> None,
           reqs |-> <<>>, served |-> None, out |-> "",
           request |-> DefaultRequest, sent |-> None,
           content |-> <<>>, i |-> 0, chunks |-> <<>>, returned |-> <<>>]

\* The request a call of `kind` sends with the endpoint record `ep`.
Sent(kind, request, ep) ==
    IF kind = "synthesize" THEN SynthesizeRequest(request, ep)
    ELSE StreamRequest(request, ep)

\* lines 110-125 / 131-146 once _get_endpoint has returned `ep` by `path`:
\* the vendor request is built from it and sent, or reading it raises KeyError.
AzIssue(a, ep, path) ==
    IF RequestReadable(ep)
    THEN /\ apc' = [apc EXCEPT ![a] = "vendor"]
         /\ aloc' = [aloc EXCEPT ![a].reqs = Append(@, "synthesize"),
                                 ![a].served = Some([tok |-> Val(ep.t), at |-> now,
                                                     path |-> path]),
                                 ![a].sent = Some(Sent(aloc[a].kind, aloc[a].request, ep))]
    ELSE /\ apc' = [apc EXCEPT ![a] = "idle"]
         /\ aloc' = [aloc EXCEPT ![a] = [AzIdle EXCEPT !.out = "KeyError"]]

\* synthesize / synthesize_stream is called: _get_endpoint runs to its return
\* (the cached session) or to the negotiation request of line 95.
AzCall(a, kind, request) ==
    /\ apc[a] = "idle"
    /\ \A o \in AzTasks : o < a => apc[o] # "idle"
    /\ azCalls < MaxAzCalls
    /\ azCalls' = azCalls + 1
    /\ UNCHANGED <<endpoint, expired_at>>
    /\ LET fresh == [AzIdle EXCEPT !.kind = kind, !.request = request,
                                   !.current_time = now,
                                   !.startExp = expired_at,
                                   !.startEndpoint = endpoint]
       IN IF SessionValid(expired_at, now)
          THEN IF IsSet(endpoint) /\ RequestReadable(Val(endpoint))
               THEN /\ apc' = [apc EXCEPT ![a] = "vendor"]
                    /\ aloc' = [aloc EXCEPT ![a] =
                          [fresh EXCEPT !.reqs = <<"synthesize">>,
                                        !.served = Some([tok |-> Val(Val(endpoint).t),
                                                         at |-> now, path |-> "cached"]),
                                        !.sent = Some(Sent(kind, request, Val(endpoint)))]]
               ELSE /\ apc' = [apc EXCEPT ![a] = "idle"]
                    /\ aloc' = [aloc EXCEPT ![a] = [AzIdle EXCEPT !.out = "KeyError"]]
          ELSE /\ apc' = [apc EXCEPT ![a] = "negotiate"]
               /\ aloc' = [aloc EXCEPT ![a] = [fresh EXCEPT !.reqs = <<"negotiate">>]]

\* Lines 95-96: the negotiation fails (transport error, non-2xx, no JSON body).
AzNegotiateFail(a) ==
    /\ apc[a] = "negotiate"
    /\ apc' = [apc EXCEPT ![a] = "idle"]
    /\ aloc' = [aloc EXCEPT ![a] = [AzIdle EXCEPT !.out = "UpstreamError"]]
    /\ UNCHANGED <<endpoint, expired_at, azCalls>>

\* Line 97: the body is stored; leaving `async with` suspends the coroutine.
AzNegotiateOk(a) ==
    /\ apc[a] = "negotiate"
    /\ \E resp \in NegResponses(now) : endpoint' = Some(resp)
    /\ apc' = [apc EXCEPT ![a] = "parse"]
    /\ UNCHANGED <<expired_at, aloc, azCalls>>

\* Lines 99-106, then the caller up to its vendor request.
AzParse(a) ==
    /\ apc[a] = "parse"
    /\ UNCHANGED <<endpoint, azCalls>>
    /\ LET d == DecodeExp(Val(endpoint))
       IN IF d.ok
          THEN /\ expired_at' = Some(d.exp)
               /\ AzIssue(a, Val(endpoint), "refreshed")
          ELSE /\ expired_at' = expired_at
               /\ apc' = [apc EXCEPT ![a] = "idle"]
               /\ aloc' = [aloc EXCEPT ![a] = [AzIdle EXCEPT !.out = d.exc]]

\* Lines 125-126 / 146-147: the request fails, or raise_for_status raises.
AzVendorFail(a) ==
    /\ apc[a] = "vendor"
    /\ apc' = [apc EXCEPT ![a] = "idle"]
    /\ aloc' = [aloc EXCEPT ![a] = [AzIdle EXCEPT !.out = "UpstreamError"]]
    /\ UNCHANGED <<endpoint, expired_at, azCalls>>

\* Lines 125-127 / 146-148: the vendor answers 2xx with the body `content`;
\* synthesize returns response.content, synthesize_stream starts to iterate
\* and is at its end at once when the body is empty.
AzVendorDone(a, content) ==
    /\ apc[a] = "vendor"
    /\ IF aloc[a].kind = "synthesize" \/ content = <<>>
       THEN /\ apc' = [apc EXCEPT ![a] = "idle"]
            /\ aloc' = [aloc EXCEPT ![a] = [AzIdle EXCEPT !.out = "ok",
                                                          !.returned = content]]
       ELSE /\ apc' = [apc EXCEPT ![a] = "stream"]
            /\ aloc' = [aloc EXCEPT ![a].content = content]
    /\ UNCHANGED <<endpoint, expired_at, azCalls>>

\* Lines 148-149: the next chunk of the body is yielded.
AzYield(a) ==
    /\ apc[a] = "stream"
    /\ aloc[a].i < Len(aloc[a].content)
    /\ aloc' = [aloc EXCEPT ![a].chunks = Append(@, AzChunk(aloc[a].content, aloc[a].i)),
                            ![a].i = @ + 4096]
    /\ UNCHANGED <<apc, endpoint, expired_at, azCalls>>

\* Line 148: the body is exhausted, the stream ends.
AzStreamEnd(a) ==
    /\ apc[a] = "stream"
    /\ aloc[a].i >= Len(aloc[a].content)
    /\ apc' = [apc EXCEPT ![a] = "idle"]
    /\ aloc' = [aloc EXCEPT ![a] = [AzIdle EXCEPT !.out = "ok"]]
    /\ UNCHANGED <<endpoint, expired_at, azCalls>>

InitAzure ==
    /\ endpoint = None
    /\ expired_at = None
    /\ apc = [a \in AzTasks |-> "idle"]
    /\ aloc = [a \in AzTasks |-> AzIdle]
    /\ azCalls = 0

\* What a step of an Azure call leaves alone.
AzFrame == UNCHANGED <<clockVars, catVars, userVars, volcVars, gwVars>>

\* The session under concurrent callers: every call makes the default request
\* and every answer has an empty body.
NextAzure ==
    \/ \E a \in AzTasks, kind \in AzKinds : AzCall(a, kind, DefaultRequest) /\ AzFrame
    \/ \E a \in AzTasks : AzNegotiateFail(a) /\ AzFrame
    \/ \E a \in AzTasks : AzNegotiateOk(a) /\ AzFrame
    \/ \E a \in AzTasks : AzParse(a) /\ AzFrame
    \/ \E a \in AzTasks : AzVendorFail(a) /\ AzFrame
    \/ \E a \in AzTasks : AzVendorDone(a, <<>>) /\ AzFrame
    \/ /\ Tick(AzTickSet, MaxTicks)
       /\ UNCHANGED <<azVars, catVars, userVars, volcVars, gwVars>>

\* One caller at a time, with every request and every body: the session is
\* that of SpecAzure, the requests and the answers vary.
NextAzureRequest ==
    \/ \E kind \in AzKinds, request \in AzRequests :
          /\ \A a \in AzTasks : apc[a] = "idle"
          /\ AzCall(1, kind, request)
          /\ AzFrame
    \/ \E a \in AzTasks : AzNegotiateFail(a) /\ AzFrame
    \/ \E a \in AzTasks : AzNegotiateOk(a) /\ AzFrame
    \/ \E a \in AzTasks : AzParse(a) /\ AzFrame
    \/ \E a \in AzTasks : AzVendorFail(a) /\ AzFrame
    \/ \E a \in AzTasks, content \in AzBodies : AzVendorDone(a, content) /\ AzFrame
    \/ \E a \in AzTasks : AzYield(a) /\ AzFrame
    \/ \E a \in AzTasks : AzStreamEnd(a) /\ AzFrame
    \/ /\ Tick(AzTickSet, MaxTicks)
       /\ UNCHANGED <<azVars, catVars, userVars, volcVars, gwVars>>

(***************************************************************************)
(* VoiceInfo, the catalogues of the two providers                          *)
(***************************************************************************)
Providers == {"azure", "volcengine"}

VoiceInfo(id, name, language, gender, provider) ==
    [id |-> id, name |-> name, language |-> language, gender |-> gender,
     provider |-> provider]

\* The table of src/tts/volcengine.py (names given by their meaning).
VOLCENGINE_VOICES ==
    << [id |-> "zh_female_story", name |-> "children story", language |-> "zh-CN", gender |-> "Female"],
       [id |-> "zh_female_qingxin", name |-> "fresh female", language |-> "zh-CN", gender |-> "Female"],
       [id |-> "zh_female_zhubo", name |-> "female anchor", language |-> "zh-CN", gender |-> "Female"],
       [id |-> "zh_male_zhubo", name |-> "male anchor", language |-> "zh-CN", gender |-> "Male"],
       [id |-> "zh_male_xiaoming", name |-> "film narrator", language |-> "zh-CN", gender |-> "Male"],
       [id |-> "zh_female_sichuan", name |-> "sichuan female", language |-> "zh-CN", gender |-> "Female"],
       [id |-> "zh_male_rap", name |-> "hip-hop singer", language |-> "zh-CN", gender |-> "Male"],
       [id |-> "en_female_sarah", name |-> "australian female", language |-> "en-AU", gender |-> "Female"],
       [id |-> "jp_male_satoshi", name |-> "lively young man", language |-> "ja-JP", gender |-> "Male"],
       [id |-> "jp_female_hana", name |-> "gentle female", language |-> "ja-JP", gender |-> "Female"] >>

\* Bodies the Azure voice-list endpoint can answer with: a JSON array of
\* entries, the empty array included.
AzureEntry(short) ==
    [ShortName |-> short, DisplayName |-> short, Locale |-> "en-US", Gender |-> "Female"]

AzureLists ==
    { <<>>,
      <<AzureEntry("zh-CN-XiaoxiaoNeural"), AzureEntry("en-US-AvaNeural")>> }

\* AzureTTSProvider._fetch_voices, lines 166-175, on the body `data`.
AzureVoices(data) ==
    [i \in 1..Len(data) |->
        VoiceInfo(data[i].ShortName, data[i].DisplayName, data[i].Locale,
                  data[i].Gender, "azure")]

\* VolcengineTTSProvider._fetch_voices: the static table, no request.
VolcengineVoices ==
    [i \in 1..Len(VOLCENGINE_VOICES) |->
        VoiceInfo(VOLCENGINE_VOICES[i].id, VOLCENGINE_VOICES[i].name,
                  VOLCENGINE_VOICES[i].language, VOLCENGINE_VOICES[i].gender,
                  "volcengine")]

\* Whether _fetch_voices of the provider suspends (an HTTP request) or not.
FetchSuspends(p) == p = "azure"

\* What a remote fetch of provider `p` can return.
FetchResults(p) ==
    IF p = "azure" THEN { AzureVoices(d) : d \in AzureLists } ELSE { VolcengineVoices }

\* Python truthiness of `list | None`: None and the empty list are false.
Truthy(o) == IsSet(o) /\ Val(o) # <<>>

(***************************************************************************)
(* The record file and VoiceCache                                          *)
(*                                                                         *)
(* A file's text is valid JSON for a value ("json"), a proper prefix of    *)
(* the text of an object ("prefix"), empty ("empty") or other text that is *)
(* not JSON ("garbage").  A JSON value is an object with an optional       *)
(* `timestamp` (a number or not) and an optional `voices` array of         *)
(* objects, or it is not an object ("other": an array, null, a number).    *)
(***************************************************************************)
VoiceKeys == {"id", "name", "language", "gender", "provider"}
RequiredKeys == {"id", "name", "language"}

Dict(keys, v) == [keys |-> keys, v |-> v]
JsonObject(timestamp, vs) == [type |-> "object", timestamp |-> timestamp, voices |-> vs]
JsonOther == [type |-> "other", timestamp |-> None, voices |-> None]
Number(n) == [numeric |-> TRUE, v |-> n]
NotANumber == [numeric |-> FALSE, v |-> 0]

Text(form, value) == [form |-> form, value |-> value]
EmptyText == Text("empty", JsonOther)
Garbage == Text("garbage", JsonOther)

\* dataclasses.asdict of a VoiceInfo: every field is a key.
AsDict(v) == Dict(VoiceKeys, v)

\* Lines 62-66: the text VoiceCache.set writes at time `t`.
RecordText(vs, t) ==
    Text("json", JsonObject(Some(Number(t)), Some([i \in 1..Len(vs) |-> AsDict(vs[i])])))

\* VoiceInfo(**d): the keys must be fields, and the fields without a default
\* must be given; `gender` defaults to None and `provider` to "".
DictOk(d) == RequiredKeys \subseteq d.keys /\ d.keys \subseteq VoiceKeys

FromDict(d) ==
    VoiceInfo(d.v.id, d.v.name, d.v.language,
              IF "gender" \in d.keys THEN d.v.gender ELSE "None",
              IF "provider" \in d.keys THEN d.v.provider ELSE "")

GetResult(out, vs, exc) == [out |-> out, voices |-> vs, exc |-> exc]

\* A slip in line 52: `>=` for `>`, a record aged exactly TTL is dropped.
ExpiredInclusive(t, timestamp, ttl) == t - timestamp >= ttl

\* Line 52: `time.time() - data.get("timestamp", 0) > self._ttl`.
Expired(t, timestamp, ttl) == t - timestamp > ttl

\* Lines 51-58 on the text read from the file, at time `t`.
ParseRecord(text, t) ==
    IF text.form # "json" THEN GetResult("none", <<>>, "")          \* JSONDecodeError, caught
    ELSE IF text.value.type # "object"
         THEN GetResult("raise", <<>>, "AttributeError")            \* data.get
    ELSE LET ts == IF IsSet(text.value.timestamp) THEN Val(text.value.timestamp)
                   ELSE Number(0)
             vs == IF IsSet(text.value.voices) THEN Val(text.value.voices) ELSE <<>>
         IN  IF ~ts.numeric THEN GetResult("raise", <<>>, "TypeError")
             ELSE IF Expired(t, ts.v, CACHE_TTL) THEN GetResult("none", <<>>, "")
             ELSE IF \E i \in 1..Len(vs) : ~DictOk(vs[i])
                  THEN GetResult("raise", <<>>, "TypeError")        \* VoiceInfo(**v)
             ELSE GetResult("list", [i \in 1..Len(vs) |-> FromDict(vs[i])], "")

\* VoiceCache.get, lines 45-58, when nothing else touches the file meanwhile.
CacheGet(file, t) ==
    IF ~IsSet(file) THEN GetResult("none", <<>>, "") ELSE ParseRecord(Val(file), t)

\* VoiceCache.set, lines 60-67, when nothing else touches the file meanwhile.
CacheSet(vs, t) == Some(RecordText(vs, t))

\* now - timestamp of a file that holds a record with a numeric timestamp.
HasAge(file) ==
    /\ IsSet(file)
    /\ Val(file).form = "json"
    /\ Val(file).value.type = "object"
    /\ IsSet(Val(file).value.timestamp)
    /\ Val(Val(file).value.timestamp).numeric

Age(file, t) == t - Val(Val(file).value.timestamp).v

(***************************************************************************)
(* TTSProvider.get_voices, callers of one process                          *)
(*                                                                         *)
(* The callers are coroutines of one event loop: a caller runs from one    *)
(* await that suspends to the next without interleaving, so the file       *)
(* operations of VoiceCache are part of the caller's step.                 *)
(***************************************************************************)
\* The callers are interchangeable: they are numbered, and a new call is run
\* by the lowest-numbered caller that is idle.
CatTasks == {1, 2}

\* The amounts by which the clock advances between catalogue requests.
CatTickSet == {1}

GIdle == [p |-> "", force |-> FALSE, cold |-> FALSE, alone |-> FALSE, slot |-> FALSE,
          hasAge |-> FALSE, age |-> 0, startNow |-> 0, fetched |-> 0, read |-> "",
          dirty |-> FALSE]

\* Whether the step being taken changes the slot or the record of a provider.
Changes == voices' # voices \/ disk' # disk

\* The other callers that are suspended in a call of provider `p`.
Others(t, p) == { o \in CatTasks \ {t} : gpc[o] # "idle" /\ gloc[o].p = p }

\* The locals of the callers when `t` runs a step of a call of provider `p`
\* and is left with the locals `l`: the calls it overlaps are marked.
Locals(t, p, l) ==
    [o \in CatTasks |->
        IF o = t THEN l
        ELSE IF o \in Others(t, p) THEN [gloc[o] EXCEPT !.alone = FALSE]
        ELSE gloc[o]]

\* The call of `t` returns (or raises) in this step and is recorded; of each
\* provider the latest two completed calls are kept.
Finish(t, l, out, value) ==
    /\ gpc' = [gpc EXCEPT ![t] = "idle"]
    /\ gloc' = Locals(t, l.p, GIdle)
    /\ hist' = [hist EXCEPT ![l.p] = Append(IF Len(@) >= 2 THEN Tail(@) ELSE @,
           [force |-> l.force, cold |-> l.cold, alone |-> l.alone, slot |-> l.slot,
            hasAge |-> l.hasAge, age |-> l.age, startNow |-> l.startNow,
            fetched |-> l.fetched, read |-> l.read,
            out |-> out, value |-> value, changed |-> l.dirty \/ Changes])]

\* A slip: one record file for all providers.
StoreFetchedShared(t, l, vs) ==
    /\ voices' = [voices EXCEPT ![l.p] = Some(vs)]
    /\ disk' = [q \in Providers |-> CacheSet(vs, now)]
    /\ Finish(t, l, "list", vs)

\* A slip in line 144: the record is written only when there is none yet.
StoreFetchedKeepsRecord(t, l, vs) ==
    /\ voices' = [voices EXCEPT ![l.p] = Some(vs)]
    /\ disk' = [disk EXCEPT ![l.p] = IF IsSet(@) THEN @ ELSE CacheSet(vs, now)]
    /\ Finish(t, l, "list", vs)

\* Lines 143-145 with the result `vs` of _fetch_voices.
StoreFetched(t, l, vs) ==
    /\ voices' = [voices EXCEPT ![l.p] = Some(vs)]
    /\ disk' = [disk EXCEPT ![l.p] = CacheSet(vs, now)]
    /\ Finish(t, l, "list", vs)

\* get_voices(force_refresh) is called on provider `p`: lines 134-143, up to
\* the return or to the request of a _fetch_voices that suspends.
GvCall(t, p, force) ==
    /\ gpc[t] = "idle"
    /\ \A o \in CatTasks : o < t => gpc[o] # "idle"
    /\ catCalls < MaxCatCalls
    /\ catCalls' = catCalls + 1
    /\ LET l0 == [GIdle EXCEPT !.p = p, !.force = force,
                               !.cold = ~IsSet(voices[p]) /\ ~IsSet(disk[p]),
                               !.alone = Others(t, p) = {},
                               !.slot = Truthy(voices[p]),
                               !.hasAge = HasAge(disk[p]),
                               !.age = IF HasAge(disk[p]) THEN Age(disk[p], now) ELSE 0,
                               !.startNow = now,
                               !.read = "skipped"]
           cached == CacheGet(disk[p], now)
           l1 == [l0 EXCEPT !.read = cached.out]
           lf == [(IF force THEN l0 ELSE l1) EXCEPT !.fetched = @ + 1]
       IN  IF ~force /\ Truthy(voices[p])
           THEN /\ UNCHANGED <<voices, disk>>
                /\ Finish(t, l0, "list", Val(voices[p]))
           ELSE IF ~force /\ cached.out = "raise"
           THEN /\ UNCHANGED <<voices, disk>>
                /\ Finish(t, l1, cached.exc, <<>>)
           ELSE IF ~force /\ cached.out = "list" /\ cached.voices # <<>>
           THEN /\ voices' = [voices EXCEPT ![p] = Some(cached.voices)]
                /\ disk' = disk
                /\ Finish(t, l1, "list", cached.voices)
           ELSE IF FetchSuspends(p)
           THEN /\ UNCHANGED <<voices, disk, hist>>
                /\ gpc' = [gpc EXCEPT ![t] = "fetch"]
                /\ gloc' = Locals(t, p, lf)
           ELSE \E vs \in FetchResults(p) : StoreFetched(t, lf, vs)

\* Line 143: the suspended _fetch_voices returns; lines 143-145 follow.
GvFetchOk(t) ==
    /\ gpc[t] = "fetch"
    /\ catCalls' = catCalls
    /\ \E vs \in FetchResults(gloc[t].p) : StoreFetched(t, gloc[t], vs)

\* A slip: the slot is cleared when the fetch fails.
GvFetchFailClears(t) ==
    /\ gpc[t] = "fetch"
    /\ catCalls' = catCalls
    /\ voices' = [voices EXCEPT ![gloc[t].p] = None]
    /\ disk' = disk
    /\ Finish(t, gloc[t], "UpstreamError", <<>>)

\* Line 143: the suspended _fetch_voices raises; nothing is assigned.
GvFetchFail(t) ==
    /\ gpc[t] = "fetch"
    /\ catCalls' = catCalls
    /\ UNCHANGED <<voices, disk>>
    /\ Finish(t, gloc[t], "UpstreamError", <<>>)

\* What a step of get_voices leaves alone.
CatFrame == UNCHANGED <<clockVars, azVars, userVars, volcVars, gwVars>>

\* self._voice_cache.clear() of provider `p`, lines 69-72, by a caller of the
\* event loop.
ProviderClear(p) ==
    /\ catCalls < MaxCatCalls
    /\ catCalls' = catCalls + 1
    /\ disk' = [disk EXCEPT ![p] = None]
    /\ UNCHANGED <<voices, gpc, gloc, hist>>

\* self._voice_cache.set(vs) of provider `p`, lines 60-67, with a list of
\* its own voices.
ProviderWrite(p, vs) ==
    /\ catCalls < MaxCatCalls
    /\ catCalls' = catCalls + 1
    /\ disk' = [disk EXCEPT ![p] = CacheSet(vs, now)]
    /\ UNCHANGED <<voices, gpc, gloc, hist>>

\* Concurrent get_voices calls of the one provider whose fetch suspends.
NextOneProvider ==
    \/ \E t \in CatTasks, force \in BOOLEAN : GvCall(t, "azure", force) /\ CatFrame
    \/ \E t \in CatTasks : GvFetchOk(t) /\ CatFrame
    \/ \E t \in CatTasks : GvFetchFail(t) /\ CatFrame
    \/ /\ Tick(CatTickSet, MaxCatTicks)
       /\ UNCHANGED <<azVars, catVars, userVars, volcVars, gwVars>>

\* get_voices together with direct writes and clears of the records.
NextScope ==
    \/ \E t \in CatTasks, p \in Providers, force \in BOOLEAN :
          GvCall(t, p, force) /\ CatFrame
    \/ \E t \in CatTasks : GvFetchOk(t) /\ CatFrame
    \/ \E t \in CatTasks : GvFetchFail(t) /\ CatFrame
    \/ \E p \in Providers : ProviderClear(p) /\ CatFrame
    \/ \E p \in Providers : \E vs \in FetchResults(p) : ProviderWrite(p, vs) /\ CatFrame

\* The records an earlier run of a provider can have left, aged exactly TTL
\* when the process starts, or no record.
InitFiles(p, t) ==
    { None } \cup { CacheSet(vs, t - CACHE_TTL) : vs \in FetchResults(p) }

InitCatalog ==
    /\ voices = [p \in Providers |-> None]
    /\ gpc = [t \in CatTasks |-> "idle"]
    /\ gloc = [t \in CatTasks |-> GIdle]
    /\ hist = [p \in Providers |-> <<>>]
    /\ catCalls = 0

NextCatalog ==
    \/ \E t \in CatTasks, p \in Providers, force \in BOOLEAN :
          GvCall(t, p, force) /\ CatFrame
    \/ \E t \in CatTasks : GvFetchOk(t) /\ CatFrame
    \/ \E t \in CatTasks : GvFetchFail(t) /\ CatFrame
    \/ /\ Tick(CatTickSet, MaxCatTicks)
       /\ UNCHANGED <<azVars, catVars, userVars, volcVars, gwVars>>

(***************************************************************************)
(* VoiceCache used from several threads or processes                       *)
(*                                                                         *)
(* Each user runs VoiceCache.get, set or clear on the record of a          *)
(* provider; the file-system calls of the users interleave: exists() and   *)
(* read_text() of get, the open (which truncates) and the writes of        *)
(* write_text in set, exists() and unlink() of clear.                      *)
(***************************************************************************)
CacheUsers == {"u1", "u2"}

UIdle == [op |-> "", p |-> "", data |-> EmptyText, old |-> None]
NoResult == [op |-> "", p |-> "", out |-> "", exc |-> "", torn |-> FALSE, gone |-> FALSE]
Result(l, out, exc, torn, gone) ==
    [op |-> l.op, p |-> l.p, out |-> out, exc |-> exc, torn |-> torn, gone |-> gone]

\* The lists a user hands to VoiceCache.set for provider `p`.
SetArgs(p) == FetchResults(p)

\* The users that hold the record of `p` open for writing.
Writers(p) == { w \in CacheUsers : upc[w] \in {"set_write", "set_rest"} /\ uloc[w].p = p }

\* The text a reader finds is neither what a writer in progress found before
\* it opened the file nor the record that writer is writing.
Torn(p, text) ==
    \E w \in Writers(p) : Some(text) # uloc[w].old /\ text # uloc[w].data

UserDone(u, res) ==
    /\ upc' = [upc EXCEPT ![u] = "idle"]
    /\ uloc' = [uloc EXCEPT ![u] = UIdle]
    /\ ures' = [ures EXCEPT ![u] = res]

UserStart(u) ==
    /\ upc[u] = "idle"
    /\ cacheOps < MaxCacheOps
    /\ cacheOps' = cacheOps + 1

\* VoiceCache.get, line 47: exists().
UGetExists(u, p) ==
    /\ UserStart(u)
    /\ disk' = disk
    /\ LET l == [UIdle EXCEPT !.op = "get", !.p = p]
       IN  IF IsSet(disk[p])
           THEN /\ upc' = [upc EXCEPT ![u] = "get_read"]
                /\ uloc' = [uloc EXCEPT ![u] = l]
                /\ ures' = [ures EXCEPT ![u] = NoResult]
           ELSE UserDone(u, Result(l, "none", "", FALSE, FALSE))

\* VoiceCache.get, lines 50-58: read_text() and the parse of what it read.
UGetRead(u) ==
    /\ upc[u] = "get_read"
    /\ UNCHANGED <<disk, cacheOps>>
    /\ LET p == uloc[u].p
           r == ParseRecord(Val(disk[p]), now)
       IN  IF ~IsSet(disk[p])
           THEN UserDone(u, Result(uloc[u], "raise", "FileNotFoundError", FALSE, FALSE))
           ELSE UserDone(u, Result(uloc[u], r.out, r.exc, Torn(p, Val(disk[p])), FALSE))

\* VoiceCache.set, lines 62-66: the record is built and write_text opens the
\* file, which creates or truncates it.
USetOpen(u, p) ==
    /\ UserStart(u)
    /\ \E vs \in SetArgs(p) :
          uloc' = [uloc EXCEPT ![u] = [op |-> "set", p |-> p,
                                       data |-> RecordText(vs, now), old |-> disk[p]]]
    /\ disk' = [disk EXCEPT ![p] = Some(EmptyText)]
    /\ upc' = [upc EXCEPT ![u] = "set_write"]
    /\ ures' = [ures EXCEPT ![u] = NoResult]

\* write_text flushes a first part of a text longer than its buffer.
USetWritePart(u) ==
    /\ upc[u] = "set_write"
    /\ disk' = [disk EXCEPT ![uloc[u].p] = Some(Text("prefix", uloc[u].data.value))]
    /\ upc' = [upc EXCEPT ![u] = "set_rest"]
    /\ UNCHANGED <<uloc, ures, cacheOps>>

\* write_text writes the rest and closes the file. Two writers of one file
\* both write from its start: what is left is one's record, or a mixture.
USetWriteRest(u) ==
    /\ upc[u] \in {"set_write", "set_rest"}
    /\ \E t \in {uloc[u].data} \cup (IF Writers(uloc[u].p) # {u} THEN {Garbage} ELSE {}) :
          disk' = [disk EXCEPT ![uloc[u].p] = Some(t)]
    /\ cacheOps' = cacheOps
    /\ UserDone(u, Result(uloc[u], "ok", "", FALSE, FALSE))

\* VoiceCache.clear, line 71: exists().
UClearExists(u, p) ==
    /\ UserStart(u)
    /\ disk' = disk
    /\ LET l == [UIdle EXCEPT !.op = "clear", !.p = p]
       IN  IF IsSet(disk[p])
           THEN /\ upc' = [upc EXCEPT ![u] = "clear_unlink"]
                /\ uloc' = [uloc EXCEPT ![u] = l]
                /\ ures' = [ures EXCEPT ![u] = NoResult]
           ELSE UserDone(u, Result(l, "ok", "", FALSE, TRUE))

\* VoiceCache.clear, line 72: unlink(), which raises when the file is gone.
UClearUnlink(u) ==
    /\ upc[u] = "clear_unlink"
    /\ cacheOps' = cacheOps
    /\ LET p == uloc[u].p
       IN  IF IsSet(disk[p])
           THEN /\ disk' = [disk EXCEPT ![p] = None]
                /\ UserDone(u, Result(uloc[u], "ok", "", FALSE, TRUE))
           ELSE /\ disk' = disk
                /\ UserDone(u, Result(uloc[u], "raise", "FileNotFoundError", FALSE, FALSE))

\* What anything but VoiceCache.set can have left under the record name of a
\* provider.
ForeignFiles(p, t) ==
    { Some(EmptyText), Some(Garbage), Some(Text("json", JsonOther)),
      Some(Text("json", JsonObject(Some(NotANumber), Some(<<>>)))),
      Some(Text("json", JsonObject(None, None))),
      Some(Text("json", JsonObject(Some(Number(t)),
            Some(<<Dict({"id", "name"}, VoiceInfo("v", "v", "", "", ""))>>)))),
      Some(Text("json", JsonObject(Some(Number(t)),
            Some(<<Dict(VoiceKeys \cup {"locale"}, VoiceInfo("v", "v", "en-US", "Female", p))>>)))) }

InitUsers ==
    /\ upc = [u \in CacheUsers |-> "idle"]
    /\ uloc = [u \in CacheUsers |-> UIdle]
    /\ ures = [u \in CacheUsers |-> NoResult]
    /\ cacheOps = 0

\* The file-system calls take no time to speak of: the clock stands still.
CacheFrame ==
    UNCHANGED <<clockVars, azVars, volcVars, gwVars, voices, gpc, gloc, hist,
                catCalls>>

NextCache ==
    \/ \E u \in CacheUsers, p \in Providers : UGetExists(u, p) /\ CacheFrame
    \/ \E u \in CacheUsers : UGetRead(u) /\ CacheFrame
    \/ \E u \in CacheUsers, p \in Providers : USetOpen(u, p) /\ CacheFrame
    \/ \E u \in CacheUsers : USetWritePart(u) /\ CacheFrame
    \/ \E u \in CacheUsers : USetWriteRest(u) /\ CacheFrame
    \/ \E u \in CacheUsers, p \in Providers : UClearExists(u, p) /\ CacheFrame
    \/ \E u \in CacheUsers : UClearUnlink(u) /\ CacheFrame

(***************************************************************************)
(* VolcengineTTSProvider: synthesize and the re-chunking synthesize_stream *)
(*                                                                         *)
(* Bytes are sequences of 0..255. Base64 text is a sequence of the values  *)
(* 0..63 of its characters, with PAD for "=".                              *)
(***************************************************************************)
VolcKinds == {"synthesize", "synthesize_stream"}

\* chunk_size of synthesize_stream.
CHUNK_SIZE == 4096

DEFAULT_VOICE == "zh_female_qingxin"

PAD == 64

Min(a, b) == IF a < b THEN a ELSE b

\* Audio of `n` bytes; its period does not divide the chunk size, so that
\* equal-sized chunks differ.
Payload(n) == [i \in 1..n |-> i % 251]

\* The base64 text of `bytes`, as the vendor puts it into audio.data.
B64Encode(bytes) ==
    LET n == Len(bytes)
        len == 4 * ((n + 2) \div 3)
        byte(k) == IF k <= n THEN bytes[k] ELSE 0
    IN  SubSeq([k \in 1..len |->
            LET j == (k - 1) \div 4
                m == (k - 1) % 4
                b0 == byte(3 * j + 1)
                b1 == byte(3 * j + 2)
                b2 == byte(3 * j + 3)
            IN  CASE m = 0 -> b0 \div 4
                  [] m = 1 -> (b0 % 4) * 16 + b1 \div 16
                  [] m = 2 -> IF 3 * j + 2 > n THEN PAD ELSE (b1 % 16) * 4 + b2 \div 64
                  [] m = 3 -> IF 3 * j + 3 > n THEN PAD ELSE b2 % 64], 1, len)

\* The number of "=" that end the text.
Pads(text) ==
    Cardinality({ k \in (Len(text) - 3)..Len(text) : k >= 1 /\ text[k] = PAD })

\* base64.b64decode of a text made of data characters and ending "=": the
\* bytes, or failure on a lone data character or missing padding.
B64Decode(text) ==
    LET nData == Len(text) - Pads(text)
        sym(k) == IF k <= nData THEN text[k] ELSE 0
    IN  IF nData % 4 = 1 \/ Len(text) % 4 # 0
        THEN [ok |-> FALSE, bytes |-> <<>>]
        ELSE [ok |-> TRUE,
              bytes |-> [i \in 1..((nData * 3) \div 4) |->
                  LET j == (i - 1) \div 3
                      m == (i - 1) % 3
                      s1 == sym(4 * j + 1)
                      s2 == sym(4 * j + 2)
                      s3 == sym(4 * j + 3)
                      s4 == sym(4 * j + 4)
                  IN  CASE m = 0 -> s1 * 4 + s2 \div 16
                        [] m = 1 -> (s2 % 16) * 16 + s3 \div 4
                        [] m = 2 -> (s3 % 4) * 64 + s4]]

\* The lengths of audio the vendor answers with.
PayloadLens ==
    {1} \cup { k * CHUNK_SIZE + d : k \in 1..MaxChunks, d \in {0 - 1, 0, 1} }

\* A 2xx answer of the TTS endpoint: `audio` absent (or null), or an object
\* whose `data` is absent or a text and which has other keys or not;
\* `message` absent or a text.
TtsResponse(audio, message) == [audio |-> audio, message |-> message]
AudioObject(data, others) == [data |-> data, others |-> others]

\* Whether `if not audio` (line 83) and `if not audio_data` (line 88) find
\* the value false: None, {} and "" are.
AudioFalse(audio) ==
    ~IsSet(audio) \/ (~IsSet(Val(audio).data) /\ ~Val(audio).others)
DataFalse(data) == ~IsSet(data) \/ Val(data) = <<>>

\* What the vendor sends in place of audio, with a message or without.
NoAudio ==
    { None, Some(AudioObject(None, FALSE)), Some(AudioObject(None, TRUE)),
      Some(AudioObject(Some(<<>>), FALSE)) }

TtsResponses ==
    { TtsResponse(audio, message) : audio \in NoAudio, message \in {None, Some("quota")} }
    \cup { TtsResponse(Some(AudioObject(Some(<<PAD, PAD, PAD, PAD>>), FALSE)), None) }
    \cup { TtsResponse(Some(AudioObject(Some(B64Encode(Payload(n))), FALSE)), None) :
             n \in PayloadLens }

\* Lines 81-92 on the JSON body `resp`: the bytes returned, or the error
\* raised and the message it carries.
ParseAudio(resp) ==
    IF AudioFalse(resp.audio)
    THEN [out |-> "ValueError", bytes |-> <<>>,
          message |-> IF IsSet(resp.message) THEN Val(resp.message) ELSE "unknown error"]
    ELSE IF DataFalse(Val(resp.audio).data)
    THEN [out |-> "ValueError", bytes |-> <<>>, message |-> "no data generated"]
    ELSE LET d == B64Decode(Val(Val(resp.audio).data))
         IN  IF d.ok THEN [out |-> "ok", bytes |-> d.bytes, message |-> ""]
             ELSE [out |-> "binascii.Error", bytes |-> <<>>, message |-> ""]

\* Line 65-67: the language of the detection answer, None when there is none
\* or the request failed.
DetectOutcomes == {"error", "not json", "no language", "empty language", "language"}
DetectedLanguage(outcome) ==
    CASE outcome = "language" -> Some("zh")
      [] outcome = "empty language" -> Some("")
      [] OTHER -> None

\* Lines 72-75: the body of the TTS request.
TtsRequestBody(voice, language) ==
    [text |-> "text", speaker |-> IF voice = "" THEN DEFAULT_VOICE ELSE voice,
     language |-> IF IsSet(language) /\ Val(language) # "" THEN language ELSE None]

\* A slip in line 99: the slice stops one byte early.
ChunkShort(audio_data, i) ==
    SubSeq(audio_data, i + 1, Min(i + CHUNK_SIZE - 1, Len(audio_data)))

\* Line 99: audio_data[i : i + chunk_size].
Chunk(audio_data, i) ==
    SubSeq(audio_data, i + 1, Min(i + CHUNK_SIZE, Len(audio_data)))

\* A vendor request of a call and how it ended: "pending", "ok" or "failed".
Req(to, result) == [to |-> to, result |-> result]

\* The requests `reqs` once the last of them has ended in `result`.
Ended(reqs, result) == [reqs EXCEPT ![Len(reqs)].result = result]

VIdle == [kind |-> "", voice |-> "", detected |-> "",
          body |-> TtsRequestBody("", None), reqs |-> <<>>,
          resp |-> TtsResponse(None, None), audio_data |-> <<>>, i |-> 0,
          message |-> ""]

\* synthesize or synthesize_stream is called: line 71 (96), the detection
\* request is sent.
VCall(kind, voice) ==
    /\ vpc = "idle"
    /\ volcCalls < MaxVolcCalls
    /\ volcCalls' = volcCalls + 1
    /\ vpc' = "detect"
    /\ vloc' = [VIdle EXCEPT !.kind = kind, !.voice = voice,
                             !.reqs = <<Req("detect", "pending")>>]
    /\ vout' = ""
    /\ vchunks' = <<>>

\* A slip in lines 66-67: an error of the detection request is not caught and
\* ends the call.
VDetectRaises(outcome) ==
    /\ vpc = "detect"
    /\ IF outcome \in {"error", "not json"}
       THEN /\ vpc' = "idle"
            /\ vout' = "UpstreamError"
            /\ vloc' = [vloc EXCEPT !.detected = outcome, !.reqs = Ended(@, "failed")]
       ELSE /\ vpc' = "tts"
            /\ vout' = vout
            /\ vloc' = [vloc EXCEPT
                  !.detected = outcome,
                  !.body = TtsRequestBody(vloc.voice, DetectedLanguage(outcome)),
                  !.reqs = Append(Ended(@, "ok"), Req("tts", "pending"))]
    /\ UNCHANGED <<vchunks, volcCalls>>

\* Lines 56-78: the detection ends, in a language or not; the TTS request is
\* sent.
VDetect(outcome) ==
    /\ vpc = "detect"
    /\ vpc' = "tts"
    /\ vloc' = [vloc EXCEPT
          !.detected = outcome,
          !.body = TtsRequestBody(vloc.voice, DetectedLanguage(outcome)),
          !.reqs = Append(Ended(@, IF outcome = "error" THEN "failed" ELSE "ok"),
                          Req("tts", "pending"))]
    /\ UNCHANGED <<vout, vchunks, volcCalls>>

\* A slip: the TTS request is sent again when it has failed.
VTtsFailRetries ==
    /\ vpc = "tts"
    /\ vpc' = "tts"
    /\ vout' = vout
    /\ vloc' = [vloc EXCEPT !.reqs = Append(Ended(@, "failed"), Req("tts", "pending"))]
    /\ UNCHANGED <<vchunks, volcCalls>>

\* Lines 78-79: the TTS request fails (transport error, non-2xx).
VTtsFail ==
    /\ vpc = "tts"
    /\ vpc' = "idle"
    /\ vout' = "UpstreamError"
    /\ vloc' = [vloc EXCEPT !.reqs = Ended(@, "failed")]
    /\ UNCHANGED <<vchunks, volcCalls>>

\* Lines 81-92: the TTS endpoint answers 2xx with `resp`; synthesize returns
\* or raises, and synthesize_stream goes on to its loop (lines 96-98).
VTts(resp) ==
    /\ vpc = "tts"
    /\ LET r == ParseAudio(resp)
       IN  IF r.out = "ok" /\ vloc.kind = "synthesize_stream"
           THEN /\ vpc' = "stream"
                /\ vloc' = [vloc EXCEPT !.resp = resp, !.audio_data = r.bytes, !.i = 0,
                                        !.reqs = Ended(@, "ok")]
                /\ vout' = vout
           ELSE /\ vpc' = "idle"
                /\ vloc' = [vloc EXCEPT !.resp = resp, !.audio_data = r.bytes,
                                        !.message = r.message,
                                        !.reqs = Ended(@, "ok")]
                /\ vout' = r.out
    /\ UNCHANGED <<vchunks, volcCalls>>

\* Lines 98-99: the next chunk is yielded.
VYield ==
    /\ vpc = "stream"
    /\ vloc.i < Len(vloc.audio_data)
    /\ vchunks' = Append(vchunks, Chunk(vloc.audio_data, vloc.i))
    /\ vloc' = [vloc EXCEPT !.i = @ + CHUNK_SIZE]
    /\ UNCHANGED <<vpc, vout, volcCalls>>

\* Line 98: the range is exhausted, the stream ends.
VEnd ==
    /\ vpc = "stream"
    /\ vloc.i >= Len(vloc.audio_data)
    /\ vpc' = "idle"
    /\ vout' = "ok"
    /\ UNCHANGED <<vloc, vchunks, volcCalls>>

InitVolc ==
    /\ vpc = "idle"
    /\ vloc = VIdle
    /\ vout = ""
    /\ vchunks = <<>>
    /\ volcCalls = 0

\* What a step of a Volcengine call leaves alone.
VolcFrame == UNCHANGED <<clockVars, azVars, catVars, userVars, gwVars>>

NextVolc ==
    \/ \E kind \in VolcKinds, voice \in {"", "zh_male_rap"} :
          VCall(kind, voice) /\ VolcFrame
    \/ \E outcome \in DetectOutcomes : VDetect(outcome) /\ VolcFrame
    \/ VTtsFail /\ VolcFrame
    \/ \E resp \in TtsResponses : VTts(resp) /\ VolcFrame
    \/ VYield /\ VolcFrame
    \/ VEnd /\ VolcFrame

(***************************************************************************)
(* The HTTP layer: lifespan, the speech routes and the voices route        *)
(*                                                                         *)
(* Speeds are in thousandths, texts are given by their length. What the    *)
(* providers do behind their operations is a nondeterministic outcome      *)
(* here.                                                                   *)
(***************************************************************************)
Routes == {"POST", "GET"}

\* ResponseFormat, lines 38-44.
ResponseFormat == {"mp3", "opus", "aac", "flac", "wav", "pcm"}

DEFAULT_MODEL == "azure"

\* The bounds of the fields of TTSSpeechRequest, lines 50 and 53.
MAX_LENGTH == 4096
SPEED_GE == 250
SPEED_LE == 4000

\* The values of the parameters of a speech request; None is an absent one.
Inputs == {None, Some(0), Some(MAX_LENGTH), Some(MAX_LENGTH + 1)}
Models == {None, Some("azure"), Some("volcengine"), Some("doesnotexist"), Some("")}
VoiceParams == {None, Some("zh_male_rap")}
Formats == {None, Some("pcm"), Some("ogg")}
Speeds == {None, Some(SPEED_GE - 1), Some(SPEED_GE), Some(SPEED_LE), Some(5000)}

SpeechParams ==
    [input : Inputs, model : Models, voice : VoiceParams,
     response_format : Formats, speed : Speeds]

\* The value of a parameter, or its default.
OrDefault(o, d) == IF IsSet(o) THEN Val(o) ELSE d

\* Lines 47-53 (POST) and 124-130 (GET): whether the framework accepts the
\* parameters and calls the handler. Both need `input` and a response_format
\* of the enum; the body model of POST also bounds `input` and `speed`.
Accepts(route, q) ==
    /\ IsSet(q.input)
    /\ IsSet(q.response_format) => Val(q.response_format) \in ResponseFormat
    /\ route = "POST" =>
          /\ Val(q.input) <= MAX_LENGTH
          /\ IsSet(q.speed) => Val(q.speed) >= SPEED_GE /\ Val(q.speed) <= SPEED_LE

\* Lines 95-100: the TTSRequest built from the parameters.
TTSRequest(q) ==
    [text |-> Val(q.input),
     voice |-> OrDefault(q.voice, DEFAULT_VOICE_NAME),
     speed |-> OrDefault(q.speed, 1000),
     response_format |-> OrDefault(q.response_format, "mp3")]

\* providers.get(name), line 91 and 152: whether the name is in the registry.
Registered(registry, name) == \E i \in 1..Len(registry) : registry[i] = name

\* What a speech request comes to before any provider runs: the status the
\* request is refused with, or the provider and the TTSRequest handed to its
\* synthesize_stream.
SpeechOutcome(registry, route, q) ==
    IF ~Accepts(route, q)
    THEN [status |-> 422, provider |-> None, request |-> None]
    ELSE IF ~Registered(registry, OrDefault(q.model, DEFAULT_MODEL))
    THEN [status |-> 400, provider |-> None, request |-> None]
    ELSE [status |-> 200, provider |-> Some(OrDefault(q.model, DEFAULT_MODEL)),
          request |-> Some(TTSRequest(q))]

HIdle == [route |-> "", q |-> None, param |-> None, todo |-> <<>>]

NoResponse ==
    [kind |-> "", registry |-> <<>>, route |-> "", q |-> None, param |-> None,
     status |-> 0,
     provider |-> None, request |-> None, invoked |-> <<>>, vendor |-> "",
     body |-> ""]

\* lifespan, lines 22-23: the registry is filled at startup.
Startup ==
    /\ hpc = "idle"
    /\ life = "new"
    /\ life' = "up"
    /\ providers' = <<"azure", "volcengine">>
    /\ UNCHANGED <<hpc, hloc, hres, gwCalls>>

\* lifespan, line 26: the registry is cleared at shutdown.
Shutdown ==
    /\ hpc = "idle"
    /\ life = "up"
    /\ life' = "down"
    /\ providers' = <<>>
    /\ UNCHANGED <<hpc, hloc, hres, gwCalls>>

\* POST or GET /v1/audio/speech, lines 83-138: the request is refused, or the
\* handler returns the StreamingResponse (status 200) around the generator
\* of the provider, which has not run yet.
Speech(route, q) ==
    /\ hpc = "idle"
    /\ gwCalls < MaxGwCalls
    /\ gwCalls' = gwCalls + 1
    /\ LET o == SpeechOutcome(providers, route, q)
       IN  /\ hres' = [NoResponse EXCEPT !.kind = "speech", !.registry = providers,
                          !.route = route,
                          !.q = Some(q), !.status = o.status,
                          !.provider = o.provider, !.request = o.request]
           /\ hpc' = IF o.status = 200 THEN "body" ELSE "idle"
    /\ hloc' = [HIdle EXCEPT !.route = route, !.q = Some(q)]
    /\ UNCHANGED <<providers, life>>

\* The response is sent: the generator runs to the end of its first vendor
\* call, lines 104-105 with azure.py 131-147 and volcengine.py 96.
BodyStart(outcome) ==
    /\ hpc = "body"
    /\ hres' = [hres EXCEPT !.invoked = <<Val(hres.provider)>>,
                            !.vendor = outcome,
                            !.body = IF outcome = "ok" THEN "chunks" ELSE "aborted"]
    /\ hpc' = "idle"
    /\ hloc' = HIdle
    /\ UNCHANGED <<providers, life, gwCalls>>

\* Finishing list_voices with `status`.
VoicesDone(registry, param, status, invoked) ==
    /\ hres' = [NoResponse EXCEPT !.kind = "voices", !.registry = registry,
                                  !.param = param, !.status = status,
                                  !.invoked = invoked]
    /\ hpc' = "idle"
    /\ hloc' = HIdle

\* GET /v1/audio/voices, lines 142-160, up to the first get_voices.
ListVoices(param) ==
    /\ hpc = "idle"
    /\ gwCalls < MaxGwCalls
    /\ gwCalls' = gwCalls + 1
    /\ UNCHANGED <<providers, life>>
    /\ LET given == IsSet(param) /\ Val(param) # ""
           todo == IF given THEN <<Val(param)>> ELSE providers
       IN  IF given /\ ~Registered(providers, Val(param))
           THEN VoicesDone(providers, param, 400, <<>>)
           ELSE IF todo = <<>>
           THEN VoicesDone(providers, param, 200, <<>>)
           ELSE /\ hpc' = "voices"
                /\ hloc' = [HIdle EXCEPT !.param = param, !.todo = todo]
                /\ hres' = [NoResponse EXCEPT !.kind = "voices", !.registry = providers,
                                              !.param = param]

\* Lines 155-160: a get_voices returns or raises.
VoicesStep(outcome) ==
    /\ hpc = "voices"
    /\ UNCHANGED <<providers, life, gwCalls>>
    /\ LET invoked == Append(hres.invoked, Head(hloc.todo))
       IN  IF outcome # "ok"
           THEN VoicesDone(hres.registry, hloc.param, 500, invoked)
           ELSE IF Tail(hloc.todo) = <<>>
           THEN VoicesDone(hres.registry, hloc.param, 200, invoked)
           ELSE /\ hloc' = [hloc EXCEPT !.todo = Tail(@)]
                /\ hres' = [hres EXCEPT !.invoked = invoked]
                /\ hpc' = hpc

VoiceQueryParams ==
    {None, Some(""), Some("azure"), Some("volcengine"), Some("doesnotexist")}

Outcomes == {"ok", "UpstreamError"}

InitGateway ==
    /\ providers = <<>>
    /\ life = "new"
    /\ hpc = "idle"
    /\ hloc = HIdle
    /\ hres = NoResponse
    /\ gwCalls = 0

\* What a step of the HTTP layer leaves alone.
GwFrame == UNCHANGED <<clockVars, azVars, catVars, userVars, volcVars>>

NextGateway ==
    \/ Startup /\ GwFrame
    \/ Shutdown /\ GwFrame
    \/ \E route \in Routes, q \in SpeechParams : Speech(route, q) /\ GwFrame
    \/ \E outcome \in Outcomes : BodyStart(outcome) /\ GwFrame
    \/ \E param \in VoiceQueryParams : ListVoices(param) /\ GwFrame
    \/ \E outcome \in Outcomes : VoicesStep(outcome) /\ GwFrame

Init ==
    /\ now = 2 * CACHE_TTL
    /\ ticks = 0
    /\ InitAzure
    /\ InitCatalog
    /\ InitUsers
    /\ InitVolc
    /\ InitGateway
    /\ disk = [p \in Providers |-> None]

\* The process starts with whatever record an earlier run left on disk.
InitWithRecords ==
    /\ now = 2 * CACHE_TTL
    /\ ticks = 0
    /\ InitAzure
    /\ InitCatalog
    /\ InitUsers
    /\ InitVolc
    /\ InitGateway
    /\ \E fa \in InitFiles("azure", now), fv \in InitFiles("volcengine", now) :
          disk = [p \in Providers |-> IF p = "azure" THEN fa ELSE fv]

\* The cache directory holds whatever was left under the record names.
InitAnyFiles ==
    /\ now = 2 * CACHE_TTL
    /\ ticks = 0
    /\ InitAzure
    /\ InitCatalog
    /\ InitUsers
    /\ InitVolc
    /\ InitGateway
    /\ \/ \E fa \in InitFiles("azure", now), fv \in InitFiles("volcengine", now) :
             disk = [p \in Providers |-> IF p = "azure" THEN fa ELSE fv]
       \/ \E q \in Providers : \E f \in ForeignFiles(q, now) :
             disk = [p \in Providers |-> IF p = q THEN f ELSE None]

SpecAzure == Init /\ [][NextAzure]_vars

SpecCatalog == InitWithRecords /\ [][NextCatalog]_vars

SpecCache == InitAnyFiles /\ [][NextCache]_vars

SpecVolc == Init /\ [][NextVolc]_vars

SpecGateway == Init /\ [][NextGateway]_vars

\* The provider operations, one provider object at a time: the Azure session,
\* the voice catalogues and the Volcengine calls share no state, and the
\* Volcengine calls do not read the clock.
NextCore ==
    \/ catCalls = 0 /\ volcCalls = 0 /\ NextAzure
    \/ azCalls = 0 /\ volcCalls = 0 /\ NextCatalog
    \/ azCalls = 0 /\ catCalls = 0 /\ ticks = 0 /\ NextVolc

SpecCore == Init /\ [][NextCore]_vars

SpecScope == InitWithRecords /\ [][NextScope]_vars

SpecAzureRequest == Init /\ [][NextAzureRequest]_vars

SpecOneProvider == InitWithRecords /\ [][NextOneProvider]_vars

(***************************************************************************)
(* Properties of the Azure session                                         *)
(***************************************************************************)

\* C1: the token of every outbound vendor request carries an expiry that is
\* more than 60 seconds after the time at which _get_endpoint returned it,
\* on the cached path and on the refreshed path alike.
C1_TokenValidByMargin ==
    \A a \in AzTasks :
        IsSet(aloc[a].served) =>
            LET s == Val(aloc[a].served)
            IN  /\ IsSet(s.tok.exp)
                /\ Val(s.tok.exp) > s.at + 60

\* C2: a call that finds no stored expiry, or one within 60 seconds of now
\* (the boundary expiry = now + 60 included), issues exactly one negotiation
\* request, and before its vendor request; a call that finds the stored expiry
\* beyond the margin issues no negotiation and sends the stored token.
C2_RefreshDecision ==
    \A a \in AzTasks :
        apc[a] \in {"negotiate", "parse", "vendor"} =>
            LET l == aloc[a]
                within == \/ ~IsSet(l.startExp)
                          \/ Val(l.startExp) <= l.current_time + 60
            IN  IF within
                THEN /\ apc[a] # "vendor" => l.reqs = <<"negotiate">>
                     /\ apc[a] = "vendor" =>
                            /\ l.reqs = <<"negotiate", "synthesize">>
                            /\ Val(l.served).path = "refreshed"
                ELSE /\ apc[a] = "vendor"
                     /\ l.reqs = <<"synthesize">>
                     /\ Val(l.served).path = "cached"
                     /\ Val(l.served).tok = Val(Val(l.startEndpoint).t)

\* A call that found the stored expiry exactly 60 seconds ahead has negotiated
\* once and is now at its vendor request.
C2_Witness ==
    \E a \in AzTasks :
        /\ apc[a] = "vendor"
        /\ IsSet(aloc[a].startExp)
        /\ Val(aloc[a].startExp) = aloc[a].current_time + 60
        /\ aloc[a].reqs = <<"negotiate", "synthesize">>

\* C3: under interleaved calls no caller is handed a token that has already
\* expired at the moment it reads it.
C3_NoExpiredTokenServed ==
    \A a \in AzTasks :
        IsSet(aloc[a].served) =>
            LET s == Val(aloc[a].served)
            IN  IsSet(s.tok.exp) => s.at < Val(s.tok.exp)

(***************************************************************************)
(* Properties of the voice catalogue                                       *)
(***************************************************************************)

\* Two calls of one provider, the first returned before the second began and
\* no other call of the provider ran during either.
Successive(p, i) ==
    /\ i + 1 <= Len(hist[p])
    /\ hist[p][i].alone
    /\ hist[p][i + 1].alone

\* C4: starting from no in-memory copy and no disk record, two successive
\* listVoices(forceRefresh=false) calls within the TTL return identical lists
\* and perform one remote fetch in total, for every catalogue the fetch can
\* return; and every listVoices(forceRefresh=true) call performs a fetch.
C4_TwoCallsOneFetch ==
    \A p \in Providers : \A i \in 1..Len(hist[p]) :
        /\ hist[p][i].force => hist[p][i].fetched = 1
        /\ Successive(p, i) =>
              LET c1 == hist[p][i]
                  c2 == hist[p][i + 1]
              IN  ( /\ c1.cold
                    /\ ~c1.force /\ ~c2.force
                    /\ c1.out = "list" /\ c2.out = "list"
                    /\ c2.startNow - c1.startNow <= CACHE_TTL )
                  => /\ c1.value = c2.value
                     /\ c1.fetched + c2.fetched = 1

\* C5 as stated: whenever the record is older than the TTL a
\* listVoices(forceRefresh=false) call reads it, the read returns none and the
\* call issues exactly one remote fetch, in every state of the provider.
C5_ExpiredAlwaysRefetches ==
    \A p \in Providers : \A i \in 1..Len(hist[p]) :
        LET c == hist[p][i]
        IN  (~c.force /\ c.hasAge /\ c.age > CACHE_TTL)
            => c.read = "none" /\ c.fetched = 1

\* C5 as amended: the record is read only when the in-memory slot is unset or
\* empty; then a record older than the TTL reads as none and the call issues
\* exactly one remote fetch, while a record aged exactly TTL is a hit of the
\* read. With a non-empty slot the call returns the slot without
\* reading the record and without a fetch, whatever the record's age.
C5_ExpiredRefetchesWhenSlotEmpty ==
    \A p \in Providers : \A i \in 1..Len(hist[p]) :
        LET c == hist[p][i]
        IN  ~c.force =>
              /\ c.slot => c.read = "skipped" /\ c.fetched = 0
              /\ (~c.slot /\ c.hasAge /\ c.age > CACHE_TTL)
                    => c.read = "none" /\ c.fetched = 1
              /\ (~c.slot /\ c.hasAge /\ c.age = CACHE_TTL) => c.read = "list"

\* A call found the slot empty and the record one second older than the TTL,
\* and fetched; a call of another provider found the slot filled (by a call
\* that hit the record aged exactly TTL) and such a record, and neither read
\* it nor fetched.
C5_Witness ==
    \E p, q \in Providers : \E i \in 1..Len(hist[p]) : \E j, k \in 1..Len(hist[q]) :
        /\ ~hist[p][i].force /\ ~hist[p][i].slot
        /\ hist[p][i].hasAge /\ hist[p][i].age = CACHE_TTL + 1
        /\ hist[p][i].read = "none" /\ hist[p][i].fetched = 1
        /\ ~hist[q][k].force /\ ~hist[q][k].slot
        /\ hist[q][k].hasAge /\ hist[q][k].age = CACHE_TTL
        /\ hist[q][k].read = "list" /\ hist[q][k].fetched = 0
        /\ ~hist[q][j].force /\ hist[q][j].slot
        /\ hist[q][j].hasAge /\ hist[q][j].age = CACHE_TTL + 1
        /\ hist[q][j].read = "skipped" /\ hist[q][j].fetched = 0

\* C9: a listVoices call whose remote fetch fails ends with the upstream error
\* and has changed neither the in-memory slot nor the disk record.
C9_FailedFetchChangesNothing ==
    \A p \in Providers : \A i \in 1..Len(hist[p]) :
        hist[p][i].out = "UpstreamError" =>
            /\ hist[p][i].fetched = 1
            /\ ~hist[p][i].changed

\* A forced refresh failed while the slot and the record were both filled.
C9_Witness ==
    \E p \in Providers :
        /\ Len(hist[p]) > 0
        /\ hist[p][Len(hist[p])].out = "UpstreamError"
        /\ hist[p][Len(hist[p])].force
        /\ Truthy(voices[p])
        /\ IsSet(disk[p])

(***************************************************************************)
(* Properties of VoiceCache                                                *)
(***************************************************************************)

\* C6: VoiceCache.read never fails its caller: whatever the record file holds,
\* and also when the file is removed between the existence check and the read,
\* it returns none or a list and raises no error.
C6_ReadNeverRaises ==
    \A u \in CacheUsers :
        ures[u].op = "get" => ures[u].out \in {"none", "list"}

\* C7: VoiceCache.write is all-or-nothing for concurrent readers: a read that
\* runs while a write is in progress finds what was there before the write or
\* the complete new record, never an empty or half-written file.
C7_ReadsSeeWholeRecords ==
    \A u \in CacheUsers :
        ures[u].op = "get" => ~ures[u].torn

\* C8: VoiceCache.clear is idempotent: it raises no error, also when the
\* record is absent or another clear of the same record is interleaved, and
\* when it returns the record is absent.
C8_ClearIdempotent ==
    \A u \in CacheUsers :
        ures[u].op = "clear" => ures[u].out = "ok" /\ ures[u].gone

(***************************************************************************)
(* Properties of the Volcengine stream                                     *)
(***************************************************************************)

RECURSIVE Concat(_)
Concat(chunks) ==
    IF chunks = <<>> THEN <<>> ELSE Head(chunks) \o Concat(Tail(chunks))

\* C10: the chunks synthesize_stream yields are, in order, the bytes that
\* synthesize returns for the same vendor answer: at every yield their
\* concatenation is the prefix read so far, and at the end the whole; each
\* chunk is non-empty and at most 4096 bytes, and each but the last is
\* exactly 4096 bytes; there are no more chunks than the length needs.
C10_StreamEqualsSynthesize ==
    (vloc.kind = "synthesize_stream" /\ (vpc = "stream" \/ vout = "ok")) =>
        LET whole == ParseAudio(vloc.resp).bytes
            n == Len(vchunks)
        IN  /\ Concat(vchunks) = SubSeq(whole, 1, Min(vloc.i, Len(whole)))
            /\ vout = "ok" => Concat(vchunks) = whole
            /\ \A k \in 1..n : Len(vchunks[k]) \in 1..CHUNK_SIZE
            /\ \A k \in 1..(n - 1) : Len(vchunks[k]) = CHUNK_SIZE
            /\ n * CHUNK_SIZE < Len(whole) + CHUNK_SIZE

\* A stream of 4097 bytes ended after a full chunk and a chunk of one byte.
C10_Witness ==
    /\ vloc.kind = "synthesize_stream"
    /\ vpc = "idle"
    /\ vout = "ok"
    /\ Len(vloc.audio_data) = CHUNK_SIZE + 1
    /\ Len(vchunks) = 2
    /\ Len(vchunks[2]) = 1

(***************************************************************************)
(* Properties of the HTTP layer                                            *)
(***************************************************************************)

\* C11: a request naming a provider that is not in the registry is answered
\* with HTTP 400 and no provider operation is invoked: an accepted speech
\* request with an unknown `model`, and a voices request whose `provider`
\* parameter is supplied with a value that is not registered, the empty
\* string included; in every state of the registry.
C11_UnknownProviderIs400 ==
    /\ (hres.kind = "speech" /\ Accepts(hres.route, Val(hres.q))
         /\ ~Registered(hres.registry, OrDefault(Val(hres.q).model, DEFAULT_MODEL)))
        => hres.status = 400 /\ hres.invoked = <<>> /\ ~IsSet(hres.provider)
    /\ (hres.kind = "voices" /\ IsSet(hres.param)
         /\ ~Registered(hres.registry, Val(hres.param)))
        => hres.status = 400 /\ hres.invoked = <<>>

\* C12: GET /v1/audio/speech has the semantics of POST: with the same values
\* of (input, model, voice, response_format, speed) the GET request is refused
\* before any provider runs exactly when the POST request is, and otherwise
\* hands the same TTSRequest to the same provider.
C12_GetSameAsPost ==
    (hres.kind = "speech" /\ hres.route = "GET") =>
        LET post == SpeechOutcome(hres.registry, "POST", Val(hres.q))
        IN  /\ (hres.status # 200) = (post.status # 200)
            /\ hres.provider = post.provider
            /\ hres.request = post.request

\* C13: when the vendor interaction behind a speech request fails, the caller
\* gets a 5xx status; a success status is committed only after the first
\* vendor call of the provider has succeeded.
C13_VendorFailureIs5xx ==
    hres.kind = "speech" =>
        /\ hres.vendor = "UpstreamError" => hres.status >= 500
        /\ hres.status = 200 => hres.vendor = "ok"

(***************************************************************************)
(* Properties of Volcengine synthesize                                     *)
(***************************************************************************)

\* C14: for a 2xx vendor answer in which `audio` is missing, null or empty, or
\* `audio.data` is missing or empty, synthesize ends with the provider's
\* error, carrying the vendor's `message` when there is one, and returns no
\* bytes; it returns the decoded `audio.data` only when that is present and
\* not empty.
C14_NoAudioIsUpstreamError ==
    (vpc = "idle" /\ vout \in {"ok", "ValueError", "binascii.Error"}) =>
        LET resp == vloc.resp
            none == AudioFalse(resp.audio) \/ DataFalse(Val(resp.audio).data)
        IN  /\ none => /\ vout = "ValueError"
                       /\ vloc.audio_data = <<>>
                       /\ IsSet(resp.message) => vloc.message = Val(resp.message)
            /\ vout = "ok" => /\ ~none
                              /\ vloc.audio_data = B64Decode(Val(Val(resp.audio).data)).bytes

(***************************************************************************)
(* Properties of all provider operations                                   *)
(***************************************************************************)

\* Within one invocation no vendor endpoint is requested twice: the
\* negotiation and the synthesis endpoint of Azure, the detection and the TTS
\* endpoint of Volcengine, the voice list of get_voices.
EachEndpointOnce ==
    /\ \A a \in AzTasks : \A i, j \in 1..Len(aloc[a].reqs) :
           aloc[a].reqs[i] = aloc[a].reqs[j] => i = j
    /\ \A i, j \in 1..Len(vloc.reqs) : vloc.reqs[i].to = vloc.reqs[j].to => i = j
    /\ \A t \in CatTasks : gloc[t].fetched <= 1
    /\ \A p \in Providers : \A i \in 1..Len(hist[p]) : hist[p][i].fetched <= 1

\* C15 as stated: no vendor endpoint is requested twice within one
\* invocation, and a failed vendor request is the last request of its
\* invocation, which ends with an error.
C15_NoRequestAfterFailure ==
    /\ EachEndpointOnce
    /\ \A i \in 1..Len(vloc.reqs) :
           vloc.reqs[i].result = "failed" =>
               i = Len(vloc.reqs) /\ vpc = "idle" /\ vout = "UpstreamError"

\* C15 as amended: no vendor endpoint is requested twice within one
\* invocation, and a failed vendor request other than the language detection
\* of Volcengine is the last request of its invocation, which ends with an
\* error; after the detection, failed or not, the TTS endpoint is requested
\* once.
C15_NoRetries ==
    /\ EachEndpointOnce
    /\ \A i \in 1..Len(vloc.reqs) :
           (vloc.reqs[i].result = "failed" /\ vloc.reqs[i].to # "detect") =>
               i = Len(vloc.reqs) /\ vpc = "idle" /\ vout = "UpstreamError"
    /\ \A p \in Providers : \A i \in 1..Len(hist[p]) :
           hist[p][i].out = "UpstreamError" => hist[p][i].fetched = 1
    /\ \A a \in AzTasks :
           aloc[a].out = "UpstreamError" => apc[a] = "idle" /\ aloc[a].reqs = <<>>

\* A Volcengine call whose detection failed has sent its one TTS request,
\* that failed too, and the call ended with the error.
C15_Witness ==
    /\ vpc = "idle"
    /\ vout = "UpstreamError"
    /\ vloc.reqs = <<Req("detect", "failed"), Req("tts", "failed")>>

(***************************************************************************)
(* Properties of the scope of the voice cache                              *)
(***************************************************************************)

\* Every entry of the list carries the name of provider `p`.
AllOf(p, vs) == \A i \in 1..Len(vs) : vs[i].provider = p

\* What the record file of a provider holds is a record of its own voices.
OwnRecord(p) ==
    IsSet(disk[p]) =>
        LET fresh == CacheGet(disk[p], 0)
        IN  fresh.out = "list" /\ fresh.voices \in FetchResults(p)

\* A step of an operation of provider `p`.
ActsOn(p) ==
    \/ \E t \in CatTasks, force \in BOOLEAN : GvCall(t, p, force)
    \/ \E t \in CatTasks : gloc[t].p = p /\ (GvFetchOk(t) \/ GvFetchFail(t))
    \/ ProviderClear(p)
    \/ \E vs \in FetchResults(p) : ProviderWrite(p, vs)

\* The step changes the record or the slot only of a provider whose own
\* operation it is.
ScopedStep ==
    \A q \in Providers :
        (voices'[q] # voices[q] \/ disk'[q] # disk[q]) => ActsOn(q)

\* The list a get_voices of `p` returned is of `p`, and was written by `p`
\* when it comes from the record.
ScopedLists ==
    \A p \in Providers :
        /\ OwnRecord(p)
        /\ IsSet(voices[p]) => AllOf(p, Val(voices[p]))
        /\ \A i \in 1..Len(hist[p]) :
              hist[p][i].out = "list" =>
                  /\ AllOf(p, hist[p][i].value)
                  /\ hist[p][i].value \in FetchResults(p)

\* C16: the voice cache is provider-scoped: after any sequence of listVoices,
\* write and clear operations a read for provider P returns only a list that
\* P wrote, every VoiceInfo that listVoices of P returns names P, and a write
\* or clear (or fetch) by P leaves the record and the slot of the other
\* provider unchanged.
C16_ProviderScoped == []ScopedLists /\ [][ScopedStep]_vars

\* A get_voices of Azure has returned a list read from its record, the record
\* has been cleared since, and the record of Volcengine is still on disk with
\* the voices of Volcengine.
C16_Witness ==
    /\ ~IsSet(disk["azure"])
    /\ IsSet(disk["volcengine"])
    /\ CacheGet(disk["volcengine"], 0).voices = VolcengineVoices
    /\ \E i \in 1..Len(hist["azure"]) :
          hist["azure"][i].read = "list" /\ hist["azure"][i].value # <<>>

(***************************************************************************)
(* Properties of the Azure synthesis request                               *)
(***************************************************************************)

\* The integer nearest to n / d (d > 0), a tie going to the even one, as
\* Python's round() does.
Nearest(n, d) ==
    LET q == n \div d
        r == n % d
    IN  IF 2 * r < d THEN q
        ELSE IF 2 * r > d THEN q + 1
        ELSE IF q % 2 = 0 THEN q ELSE q + 1

\* C17: for every speed in [0.25, 4.0] the rate that synthesize and
\* synthesize_stream put into the SSML is round((speed - 1) * 100), the
\* integer nearest to the product and not its truncation towards zero.
C17_RateIsRounded ==
    \A a \in AzTasks :
        IsSet(aloc[a].sent) =>
            Val(aloc[a].sent).ssml.rate
                = Nearest((aloc[a].request.speed - 1000) * 100, 1000)

(***************************************************************************)
(* Properties of the Volcengine language detection                         *)
(***************************************************************************)

\* The requests of the call that went to `to`.
RequestsTo(to) == { k \in 1..Len(vloc.reqs) : vloc.reqs[k].to = to }

\* C18: the language detection is best-effort: whatever the detection
\* request comes to (transport error, body that is not JSON, JSON without a
\* language or with an empty one, a language), exactly one TTS request
\* follows it; that request carries a `language` only when the detection
\* gave a non-empty one; and the call fails only if the TTS request failed
\* or its answer has no audio.
C18_DetectionBestEffort ==
    vloc.detected # "" =>
        /\ vloc.detected \in DetectOutcomes
        /\ Len(vloc.reqs) = 2
        /\ vloc.reqs[1].to = "detect" /\ vloc.reqs[1].result # "pending"
        /\ RequestsTo("tts") = {2}
        /\ IsSet(vloc.body.language) <=> vloc.detected = "language"
        /\ vloc.detected = "language" => vloc.body.language = Some("zh")
        /\ vout = "UpstreamError" => vloc.reqs[2].result = "failed"
        /\ vout = "ValueError" =>
              vloc.reqs[2].result = "ok" /\ ParseAudio(vloc.resp).out # "ok"
        /\ (vloc.reqs[2].result = "ok" /\ ParseAudio(vloc.resp).out = "ok")
              => vout \in {"", "ok"}

\* The detection request failed, the TTS request went out without a language
\* and the call returned its audio.
C18_Witness ==
    /\ vloc.detected = "error"
    /\ vloc.reqs[1].result = "failed"
    /\ ~IsSet(vloc.body.language)
    /\ vpc = "idle"
    /\ vout = "ok"
    /\ Len(vloc.audio_data) > 0

\* C19: for every request and every state of the session, synthesize_stream
\* checks and refreshes the token as synthesize does (it negotiates exactly
\* when the session is not valid at the call), sends the vendor request that
\* synthesize sends (region of `r`, token, output format, SSML), and the
\* chunks it yields are, in order, the body that synthesize returns: at every
\* yield their concatenation is the prefix read so far and at the end the
\* whole, each chunk but the last of 4096 bytes.
C19_StreamSameAsSynthesize ==
    \A a \in AzTasks :
        aloc[a].kind = "synthesize_stream" =>
            LET l == aloc[a]
                n == Len(l.chunks)
            IN  /\ l.reqs[1] = "negotiate" <=> ~SessionValid(l.startExp, l.current_time)
                /\ IsSet(l.sent) =>
                      /\ Val(l.sent) = SynthesizeRequest(l.request, Val(endpoint))
                      /\ Val(l.sent).authorization = Val(l.served).tok
                /\ apc[a] = "stream" =>
                      /\ Concat(l.chunks) = SubSeq(l.content, 1, Min(l.i, Len(l.content)))
                      /\ l.i >= Len(l.content) => Concat(l.chunks) = l.content
                      /\ \A k \in 1..n : Len(l.chunks[k]) \in 1..4096
                      /\ \A k \in 1..(n - 1) : Len(l.chunks[k]) = 4096

\* A stream on the cached session, asking for wav, has yielded a body of 4097 bytes in two chunks.
C19_Witness ==
    \E a \in AzTasks :
        /\ aloc[a].kind = "synthesize_stream"
        /\ apc[a] = "stream"
        /\ Val(aloc[a].served).path = "cached"
        /\ aloc[a].request.response_format = "wav"
        /\ Val(aloc[a].sent).output_format = "riff-24khz-16bit-mono-pcm"
        /\ Len(aloc[a].content) = 4097
        /\ Len(aloc[a].chunks) = 2

(***************************************************************************)
(* Properties of the stored session                                        *)
(***************************************************************************)

\* The stored endpoint record and the stored expiry are of one successful
\* negotiation: both unset, or the record's token decodes to the expiry.
SameNegotiation(ep, exp) ==
    \/ ~IsSet(ep) /\ ~IsSet(exp)
    \/ /\ IsSet(ep)
       /\ IsSet(exp)
       /\ DecodeExp(Val(ep)).ok
       /\ DecodeExp(Val(ep)).exp = Val(exp)

\* C20: whenever no refresh is between storing the record and storing the
\* expiry, the stored endpoint record and the stored expiry belong to the same
\* successful negotiation, also after a negotiation that failed part-way and
\* under interleaved refreshes; and the record returned on the cached path
\* holds the token whose `exp` is the stored expiry.
C20_EndpointMatchesExpiry ==
    /\ (\A a \in AzTasks : apc[a] # "parse") => SameNegotiation(endpoint, expired_at)
    /\ \A a \in AzTasks :
          (IsSet(aloc[a].served) /\ Val(aloc[a].served).path = "cached") =>
              Val(aloc[a].served).tok.exp = aloc[a].startExp

(***************************************************************************)
(* Properties of the catalogue state under concurrent calls                *)
(***************************************************************************)

\* The voices of the record of provider `p`, whatever its age.
RecordVoices(p) == CacheGet(disk[p], 0)

\* The slot of a provider, if set, is the list of its record.
SlotIsRecord ==
    \A p \in Providers :
        IsSet(voices[p]) =>
            /\ IsSet(disk[p])
            /\ RecordVoices(p).out = "list"
            /\ RecordVoices(p).voices = Val(voices[p])

\* The call that returns in this step returns one whole list: a result of
\* the remote fetch, and what the slot and the record hold at the return.
ReturnsWhole ==
    \A p \in Providers :
        hist'[p] # hist[p] =>
            LET c == hist'[p][Len(hist'[p])]
            IN  c.out = "list" =>
                    /\ c.value \in FetchResults(p)
                    /\ voices'[p] = Some(c.value)
                    /\ CacheGet(disk'[p], 0).voices = c.value

=============================================================================
